---- MODULE Spec2Model ----
(***************************************************************************)
(* Model of the EmPersistentState storage engine (em_persistent_state.h /  *)
(* em_persistent_state.cpp): an append-only log of {id, size, value}       *)
(* records kept between a Header and a Footer identifier inside a window   *)
(* [m_beginIndex, m_endIndex) of a byte-addressable EEPROM.                *)
(*                                                                         *)
(* The EM_EEPROM build is modelled (the window constructor, and            *)
(* updateBytes_ returning true without a commit step).  ps_address_t and   *)
(* ps_size_t are uint16_t: every cast to ps_address_t is a "% AddrMod".    *)
(* The size field is stored in the byte order of the little-endian targets *)
(* the library is built for.  The sum index+size of indexCheck_ has the    *)
(* width of the build's int: on a build with a 16-bit int the uint16_t     *)
(* operands stay unsigned and the sum wraps, on one with a 32-bit int it   *)
(* does not; intBits is the build.                                         *)
(***************************************************************************)
EXTENDS Integers, Sequences, FiniteSets, TLC

(***************************************************************************)
(* Bounds of the model and constants of the program                        *)
(***************************************************************************)
\* EEPROM.length(): the number of bytes of the device
EepromLen == 23
\* the number of calls of a run that change the state
MaxCalls == 5

c_MinSize == 12
c_MaxLen == 3
SizeLen == 2
AddrMod == 65536
ByteMod == 256
c_HeaderId == <<35, 62, 33>>
c_FooterId == <<35, 60, 33>>
\* EmPersistentId(): memset(m_id, 0, ...)
EmptyId == <<0, 0, 0>>

Min(a, b) == IF a < b THEN a ELSE b

\* EmPersistentId(const char*): the first c_MaxLen characters, zero padded
EmPersistentId(str) ==
    [i \in 1..c_MaxLen |-> IF Len(str) > i - 1 THEN str[i] ELSE 0]

\* the bytes of a ps_size_t in memory
SizeBytes(n) == <<n % ByteMod, n \div ByteMod>>
SizeOfBytes(bs) == bs[1] + ByteMod * bs[2]

\* a cast to ps_address_t
Addr(x) == x % AddrMod

(***************************************************************************)
(* The typed values the program declares.  "a1" and "a2" share the id and  *)
(* differ in size; "t" is a bounded text of maxTextLen 2; its id is given  *)
(* with four characters.                                                   *)
(***************************************************************************)
Vals == {"a1", "a2", "t"}

IsText(v) == v = "t"

IdOf(v) ==
    CASE v = "a1" -> EmPersistentId(<<97>>)
      [] v = "a2" -> EmPersistentId(<<97>>)
      [] v = "t"  -> EmPersistentId(<<116, 120, 116, 50>>)

\* m_bufferSize: sizeof(T) for a scalar, maxTextLen+1 for a text
BufSize(v) ==
    CASE v = "a1" -> 1
      [] v = "a2" -> 2
      [] v = "t"  -> 2 + 1

\* The values a program assigns: scalars as their bytes, texts as the
\* characters before the terminator.
Inputs(v) ==
    CASE v = "a1" -> {<<16>>, <<44>>}
      [] v = "a2" -> {<<16, 0>>, <<255, 255>>}
      [] v = "t"  -> {<<>>, <<72>>, <<71, 111, 116>>}

InitValue(v) ==
    CASE v = "a1" -> <<16>>
      [] v = "a2" -> <<16, 0>>
      [] v = "t"  -> <<72>>

Zeros(n) == [i \in 1..n |-> 0]

\* EmPersistentString::valueSize_: MIN(m_bufferSize-1, strlen+1)
valueSize_(v, str) == Min(BufSize(v) - 1, Len(str) + 1)

\* memcpy(m_pValue, src, n) on a buffer
Memcpy(buf, src, n) == [i \in 1..Len(buf) |-> IF i <= n THEN src[i] ELSE buf[i]]

\* setMem_: the scalar copies m_bufferSize bytes, the text copies valueSize_
\* bytes of the terminated string
setMem_(v, buf, x) ==
    IF IsText(v) THEN Memcpy(buf, x \o <<0>>, valueSize_(v, x))
    ELSE Memcpy(buf, x, BufSize(v))

\* the constructors: the base class zero-fills the buffer, the typed class
\* copies the initial value; m_address is 0
NewValue(v) == [address |-> 0, buf |-> setMem_(v, Zeros(BufSize(v)), InitValue(v))]

\* the characters of a buffer up to its first terminator (the whole buffer
\* when it holds none)
RECURSIVE CStr(_)
CStr(buf) ==
    IF buf = <<>> \/ Head(buf) = 0 THEN <<>> ELSE <<Head(buf)>> \o CStr(Tail(buf))

\* equals(): memcmp over m_bufferSize for a scalar, strcmp for a text
equals(v, buf, x) == IF IsText(v) THEN CStr(buf) = x ELSE buf = x

(***************************************************************************)
(* State                                                                   *)
(***************************************************************************)
VARIABLES
    eeprom,           \* the device: address -> byte
    m_beginIndex,
    m_endIndex,
    m_nextPvAddress,
    values,           \* the typed values in memory: [address, buf]
    m_pCurrentPv,     \* the iterator's item: <<>> or <<record>>
    last,             \* the last call: its name, argument and result
    intBits,          \* the build: the width of int, 16 or 32
    rt                \* history: what was last assigned to the registered values

vars == <<eeprom, m_beginIndex, m_endIndex, m_nextPvAddress, values,
          m_pCurrentPv, last, intBits, rt>>

\* the builds: int of 16 bits, int of 32 bits
Builds == {16, 32}

(***************************************************************************)
(* Device access layer                                                     *)
(***************************************************************************)
\* index+size, in the arithmetic of the build
IntSum(index, size) == IF intBits = 16 THEN (index + size) % AddrMod ELSE index + size

indexCheck_(index, size) == index >= m_beginIndex /\ IntSum(index, size) < m_endIndex

\* the loop of readBytes_ over an accepted range reads a byte at or after
\* m_endIndex: the sum of the check had wrapped
Outside(index, size) == indexCheck_(index, size) /\ index + size > m_endIndex

readBytes_(dev, index, size) ==
    IF indexCheck_(index, size)
    THEN [ok |-> TRUE, bytes |-> [i \in 1..size |-> dev[index + i - 1]]]
    ELSE [ok |-> FALSE, bytes |-> <<>>]

\* mutant: every byte is written, whatever the device holds
updateBytes_AlwaysWrite(dev, index, bytes) ==
    IF indexCheck_(index, Len(bytes))
    THEN [ok |-> TRUE,
          dev |-> [a \in DOMAIN dev |->
                     IF a >= index /\ a < index + Len(bytes)
                     THEN bytes[a - index + 1] ELSE dev[a]],
          writes |-> {index + i - 1 : i \in 1..Len(bytes)}]
    ELSE [ok |-> FALSE, dev |-> dev, writes |-> {}]

\* updateBytes_: writes is the set of the addresses EEPROM.write is called on,
\* those where the device holds another byte
updateBytes_(dev, index, bytes) ==
    IF indexCheck_(index, Len(bytes))
    THEN LET writes == {a \in {index + i - 1 : i \in 1..Len(bytes)} :
                          bytes[a - index + 1] # dev[a]}
         IN  [ok |-> TRUE,
              dev |-> [a \in DOMAIN dev |->
                         IF a \in writes THEN bytes[a - index + 1] ELSE dev[a]],
              writes |-> writes]
    ELSE [ok |-> FALSE, dev |-> dev, writes |-> {}]

\* mutant: the identifier counted with its terminator, sizeof(m_id)
nextPvAddress_SizeofId(index) == Addr(index + c_MaxLen + 1)

nextPvAddress_(index) == Addr(index + c_MaxLen)
firstPvAddress_ == nextPvAddress_(m_beginIndex)

\* EmPersistentValueBase: the sub-addresses of a record at address a
sizeAddress_(a) == Addr(a + c_MaxLen)
valueAddress_(a) == Addr(a + c_MaxLen + SizeLen)
PvNextAddress_(a, size) == Addr(a + c_MaxLen + SizeLen + size)

isInitialized_ == m_nextPvAddress # 0

(***************************************************************************)
(* The constructor: the window, clamped against the device                 *)
(***************************************************************************)
\* emUndefined for an EmOptional argument
Undefined == 0 - 1

\* EmPersistentState(beginIndex, endIndex): <<m_beginIndex, m_endIndex>>
Window(beginIndex, endIndex) ==
    LET b0 == IF beginIndex # Undefined THEN beginIndex ELSE 0
        e0 == IF endIndex # Undefined THEN endIndex ELSE EepromLen
        b1 == IF b0 >= EepromLen THEN 0 ELSE b0
        e1 == IF e0 > EepromLen THEN EepromLen ELSE e0
        \* m_endIndex - m_beginIndex: int on a build with a 32-bit int, unsigned
        \* int (and c_MinSize converted to it) on one with a 16-bit int
        diff == IF intBits = 16 THEN (e1 - b1) % AddrMod ELSE e1 - b1
    IN  IF c_MinSize > diff THEN <<0, c_MinSize>> ELSE <<b1, e1>>

\* the windows a program asks for: from address 2 to the end of the device,
\* and the 13 bytes [0, 13)
Requests == {<<2, Undefined>>, <<0, 13>>}

(***************************************************************************)
(* Scans of the log                                                        *)
(***************************************************************************)
\* readNext_: ok with the id, the size and the index of the value bytes; or
\* not ok, with footer telling whether the Footer identifier was read
readNext_(dev, index) ==
    LET rid == readBytes_(dev, index, c_MaxLen)
        rsz == readBytes_(dev, nextPvAddress_(index), SizeLen)
    IN  IF ~rid.ok
        THEN [ok |-> FALSE, footer |-> FALSE, index |-> index, id |-> EmptyId, size |-> 0]
        ELSE IF rid.bytes = c_FooterId
        THEN [ok |-> FALSE, footer |-> TRUE, index |-> index, id |-> c_FooterId, size |-> 0]
        ELSE IF ~rsz.ok
        THEN [ok |-> FALSE, footer |-> FALSE, index |-> index, id |-> rid.bytes, size |-> 0]
        ELSE [ok |-> TRUE, footer |-> FALSE,
              index |-> Addr(nextPvAddress_(index) + SizeLen),
              id |-> rid.bytes, size |-> SizeOfBytes(rsz.bytes)]

\* the loop of begin() and of count(): while (readNext_(index, id, size))
\* { index = index + size; count++; }.  hang: the loop came back to an index
\* it had already read, so it never ends.
RECURSIVE ScanLoop(_, _, _, _)
ScanLoop(dev, index, count, seen) ==
    LET r == readNext_(dev, index)
        nx == Addr(r.index + r.size)
    IN  IF ~r.ok
        THEN [index |-> index, count |-> count, footer |-> r.footer, hang |-> FALSE]
        ELSE IF nx \in seen
        THEN [index |-> nx, count |-> count + 1, footer |-> FALSE, hang |-> TRUE]
        ELSE ScanLoop(dev, nx, count + 1, seen \cup {nx})

\* mutant: equal sizes are enough
match_SizeOnly(id1, id2, size1, size2) == size1 = size2

\* mutant: the sizes are not compared
match_IdOnly(id1, id2, size1, size2) == id1 = id2

match_(id1, id2, size1, size2) == id1 = id2 /\ size1 = size2

\* findMatch_: index ends at the value bytes of the first matching record
RECURSIVE findMatch_(_, _, _, _, _, _, _)
findMatch_(dev, index, id, size, psId, psSize, seen) ==
    IF match_(id, psId, size, psSize)
    THEN [ok |-> TRUE, index |-> index, hang |-> FALSE]
    ELSE LET r == readNext_(dev, Addr(index + psSize))
         IN  IF ~r.ok THEN [ok |-> FALSE, index |-> r.index, hang |-> FALSE]
             ELSE IF r.index \in seen THEN [ok |-> FALSE, index |-> r.index, hang |-> TRUE]
             ELSE findMatch_(dev, r.index, id, size, r.id, r.size, seen \cup {r.index})

\* find(value) with the engine's m_nextPvAddress being next: the value as
\* find leaves it (m_address is assigned before the value bytes are read)
find(dev, next, v, val) ==
    IF next = 0 THEN [ok |-> FALSE, val |-> val, hang |-> FALSE]
    ELSE LET m == findMatch_(dev, firstPvAddress_, IdOf(v), BufSize(v), EmptyId, 0, {})
             a == Addr(m.index - c_MaxLen - SizeLen)
             rb == readBytes_(dev, m.index, BufSize(v))
         IN  IF ~m.ok THEN [ok |-> FALSE, val |-> val, hang |-> m.hang]
             ELSE IF ~rb.ok
             THEN [ok |-> FALSE, val |-> [val EXCEPT !.address = a], hang |-> FALSE]
             ELSE [ok |-> TRUE, val |-> [address |-> a, buf |-> rb.bytes], hang |-> FALSE]

(***************************************************************************)
(* Writes of records                                                       *)
(***************************************************************************)
\* updateValue_ of a value whose m_address is a
updateValue_(dev, a, buf) ==
    IF a = 0 THEN [ok |-> FALSE, dev |-> dev, writes |-> {}]
    ELSE updateBytes_(dev, valueAddress_(a), buf)

\* store_: the id, the size, the value bytes, stopping at the first failure
store_(dev, v, a, buf) ==
    LET w1 == updateBytes_(dev, a, IdOf(v))
        w2 == updateBytes_(w1.dev, sizeAddress_(a), SizeBytes(BufSize(v)))
    IN  IF ~w1.ok THEN w1
        ELSE IF ~w2.ok THEN w2
        ELSE updateValue_(w2.dev, a, buf)

\* mutant: m_address is not reset when the record or the Footer is rejected
appendValue_NoRollback(dev, next, v, val) ==
    LET st == store_(dev, v, next, val.buf)
        nx == PvNextAddress_(next, BufSize(v))
        ft == updateBytes_(st.dev, nx, c_FooterId)
    IN  [ok |-> st.ok /\ ft.ok, dev |-> IF st.ok THEN ft.dev ELSE st.dev,
         next |-> IF st.ok /\ ft.ok THEN nx ELSE next,
         val |-> [val EXCEPT !.address = next]]

\* appendValue_: the record at m_nextPvAddress, then the Footer after it
appendValue_(dev, next, v, val) ==
    LET st == store_(dev, v, next, val.buf)
        nx == PvNextAddress_(next, BufSize(v))
        ft == updateBytes_(st.dev, nx, c_FooterId)
    IN  IF st.ok /\ ft.ok
        THEN [ok |-> TRUE, dev |-> ft.dev, next |-> nx,
              val |-> [val EXCEPT !.address = next]]
        ELSE [ok |-> FALSE, dev |-> IF st.ok THEN ft.dev ELSE st.dev, next |-> next,
              val |-> [val EXCEPT !.address = 0]]

\* begin(): [ok, ret, dev, next, hdr, hang]; hdr tells whether the Header was
\* found at m_beginIndex
begin(dev) ==
    LET rid == readBytes_(dev, m_beginIndex, c_MaxLen)
        hdr == rid.ok /\ rid.bytes = c_HeaderId
        w1 == updateBytes_(dev, m_beginIndex, c_HeaderId)
        w2 == updateBytes_(w1.dev, firstPvAddress_, c_FooterId)
        dev1 == IF hdr THEN dev ELSE w2.dev
        sc == ScanLoop(dev1, firstPvAddress_, 0, {firstPvAddress_})
    IN  IF ~rid.ok
        THEN [ok |-> FALSE, ret |-> 0 - 1, dev |-> dev, next |-> 0, hdr |-> FALSE,
              footer |-> FALSE, hang |-> FALSE]
        ELSE IF ~hdr /\ ~w1.ok
        THEN [ok |-> FALSE, ret |-> 0 - 1, dev |-> dev, next |-> 0, hdr |-> FALSE,
              footer |-> FALSE, hang |-> FALSE]
        ELSE IF ~hdr /\ ~w2.ok
        THEN [ok |-> FALSE, ret |-> 0 - 1, dev |-> w1.dev, next |-> 0, hdr |-> FALSE,
              footer |-> FALSE, hang |-> FALSE]
        ELSE [ok |-> TRUE, ret |-> sc.count, dev |-> dev1, next |-> sc.index, hdr |-> hdr,
              footer |-> sc.footer, hang |-> sc.hang]

\* the first loop of begin(it, .): find() on every declared value
RECURSIVE FindAll(_, _, _, _, _, _)
FindAll(dev, next, vals, list, i, foundItems) ==
    IF i > Len(list) THEN [vals |-> vals, foundItems |-> foundItems, hang |-> FALSE]
    ELSE CHOOSE r \in
           {IF f.hang THEN [vals |-> vals, foundItems |-> foundItems, hang |-> TRUE]
            ELSE FindAll(dev, next, [vals EXCEPT ![list[i]] = f.val], list, i + 1,
                         IF f.ok THEN foundItems + 1 ELSE foundItems) :
              f \in {find(dev, next, list[i], vals[list[i]])}} : TRUE

\* mutant: the second loop appends the values that are stored as well
RECURSIVE AppendAll_EveryValue(_, _, _, _, _, _)
AppendAll_EveryValue(dev, next, vals, list, i, rewrite) ==
    IF i > Len(list) THEN [dev |-> dev, next |-> next, vals |-> vals]
    ELSE CHOOSE r \in
           {AppendAll_EveryValue(a.dev, a.next, [vals EXCEPT ![list[i]] = a.val], list,
                                 i + 1, rewrite) :
              a \in {appendValue_(dev, next, list[i], vals[list[i]])}} : TRUE

\* the second loop of begin(it, .): appendValue_ on every declared value
\* (rewrite) or on those that are not stored; the results are not looked at
RECURSIVE AppendAll(_, _, _, _, _, _)
AppendAll(dev, next, vals, list, i, rewrite) ==
    IF i > Len(list) THEN [dev |-> dev, next |-> next, vals |-> vals]
    ELSE IF rewrite \/ vals[list[i]].address = 0
    THEN CHOOSE r \in
           {AppendAll(a.dev, a.next, [vals EXCEPT ![list[i]] = a.val], list, i + 1, rewrite) :
              a \in {appendValue_(dev, next, list[i], vals[list[i]])}} : TRUE
    ELSE AppendAll(dev, next, vals, list, i + 1, rewrite)

\* the value begin(it, removeUnusedValues) returns: countItems, counted in
\* the second loop
beginResult(storedCount, list) == Len(list)

\* begin(it, removeUnusedValues)
beginList(dev, vals, list, removeUnusedValues) ==
    CHOOSE r \in
      {IF b.ret < 0
       THEN [ret |-> b.ret, dev |-> b.dev, next |-> b.next, vals |-> vals,
             stored |-> 0, found |-> 0, rewrite |-> FALSE, hang |-> FALSE]
       ELSE CHOOSE r1 \in
         {LET somethingToDelete == b.ret > f.foundItems
              rewrite == removeUnusedValues /\ somethingToDelete
          IN  IF b.hang \/ f.hang
              THEN [ret |-> 0, dev |-> b.dev, next |-> b.next, vals |-> f.vals,
                    stored |-> b.ret, found |-> f.foundItems, rewrite |-> FALSE,
                    hang |-> TRUE]
              ELSE CHOOSE r2 \in
                {[ret |-> beginResult(b.ret, list), dev |-> a.dev, next |-> a.next,
                  vals |-> a.vals, stored |-> b.ret, found |-> f.foundItems,
                  rewrite |-> rewrite, hang |-> FALSE] :
                   a \in {AppendAll(b.dev, IF rewrite THEN firstPvAddress_ ELSE b.next,
                                    f.vals, list, 1, rewrite)}} : TRUE :
            f \in {FindAll(b.dev, b.next, vals, list, 1, 0)}} : TRUE :
         b \in {begin(dev)}} : TRUE

\* mutant: the decoded record gets the address of its value bytes
createNext_ValueAddress(dev, index) ==
    LET rid == readBytes_(dev, index, c_MaxLen)
        rsz == readBytes_(dev, nextPvAddress_(index), SizeLen)
        size == SizeOfBytes(rsz.bytes)
        vi == Addr(nextPvAddress_(index) + SizeLen)
        rv == readBytes_(dev, vi, size)
    IN  IF ~rid.ok \/ rid.bytes = c_FooterId \/ ~rsz.ok
        THEN [ok |-> FALSE, outside |-> FALSE, index |-> index, pv |-> <<>>]
        ELSE IF Outside(vi, size)
        THEN [ok |-> FALSE, outside |-> TRUE, index |-> index, pv |-> <<>>]
        ELSE IF ~rv.ok
        THEN [ok |-> FALSE, outside |-> FALSE, index |-> index, pv |-> <<>>]
        ELSE [ok |-> TRUE, outside |-> FALSE, index |-> Addr(vi + size),
              pv |-> <<[id |-> rid.bytes, address |-> vi, size |-> size,
                        buf |-> rv.bytes]>>]

\* createNext_: the record decoded at index, and the index after it; outside
\* when the read of the value bytes, whose size comes from the device, leaves
\* the window
createNext_(dev, index) ==
    LET rid == readBytes_(dev, index, c_MaxLen)
        rsz == readBytes_(dev, nextPvAddress_(index), SizeLen)
        size == SizeOfBytes(rsz.bytes)
        vi == Addr(nextPvAddress_(index) + SizeLen)
        rv == readBytes_(dev, vi, size)
    IN  IF ~rid.ok \/ rid.bytes = c_FooterId \/ ~rsz.ok
        THEN [ok |-> FALSE, outside |-> FALSE, index |-> index, pv |-> <<>>]
        ELSE IF Outside(vi, size)
        THEN [ok |-> FALSE, outside |-> TRUE, index |-> index, pv |-> <<>>]
        ELSE IF ~rv.ok
        THEN [ok |-> FALSE, outside |-> FALSE, index |-> index, pv |-> <<>>]
        ELSE [ok |-> TRUE, outside |-> FALSE, index |-> Addr(vi + size),
              pv |-> <<[id |-> rid.bytes, address |-> index, size |-> size,
                        buf |-> rv.bytes]>>]

\* the loop of load(): the records appended to the caller's list
RECURSIVE LoadLoop(_, _, _)
LoadLoop(dev, index, out) ==
    LET c == createNext_(dev, index)
    IN  IF ~c.ok THEN [out |-> out, outside |-> c.outside]
        ELSE LoadLoop(dev, c.index, out \o c.pv)

\* mutant: the Footer is not written after the Header
clear_HeaderOnly(dev, next) ==
    LET w1 == updateBytes_(dev, m_beginIndex, c_HeaderId)
    IN  IF w1.ok THEN [ok |-> TRUE, dev |-> w1.dev, next |-> firstPvAddress_]
        ELSE [ok |-> FALSE, dev |-> w1.dev, next |-> next]

\* clear(): Header and Footer are written; no initialization check
clear(dev, next) ==
    LET w1 == updateBytes_(dev, m_beginIndex, c_HeaderId)
        w2 == updateBytes_(w1.dev, firstPvAddress_, c_FooterId)
    IN  IF w1.ok /\ w2.ok THEN [ok |-> TRUE, dev |-> w2.dev, next |-> firstPvAddress_]
        ELSE [ok |-> FALSE, dev |-> w1.dev, next |-> next]

\* add(value)
add(dev, next, v, val) ==
    LET f == find(dev, next, v, val)
        a == appendValue_(dev, next, v, f.val)
    IN  IF next = 0
        THEN [ok |-> FALSE, dev |-> dev, next |-> next, val |-> val, found |-> FALSE,
              hang |-> FALSE]
        ELSE IF f.hang
        THEN [ok |-> FALSE, dev |-> dev, next |-> next, val |-> val, found |-> FALSE,
              hang |-> TRUE]
        ELSE IF f.ok
        THEN [ok |-> TRUE, dev |-> dev, next |-> next, val |-> f.val, found |-> TRUE,
              hang |-> FALSE]
        ELSE [ok |-> a.ok, dev |-> a.dev, next |-> a.next, val |-> a.val, found |-> FALSE,
              hang |-> FALSE]

\* what equals() can answer: strcmp on a text buffer that holds no terminator
\* reads past the buffer, and may then report either result when the buffer
\* is a prefix of the argument
EqualsOutcomes(v, buf, x) ==
    IF IsText(v) /\ (\A i \in 1..Len(buf) : buf[i] # 0)
    THEN IF Len(x) >= Len(buf) /\ SubSeq(x, 1, Len(buf)) = buf THEN {TRUE, FALSE} ELSE {FALSE}
    ELSE {equals(v, buf, x)}

(***************************************************************************)
(* The calls of a program                                                  *)
(***************************************************************************)
\* the declared lists handed to begin(values, .): at most two entries; a list
\* may name a value twice
Lists == UNION {[1..n -> Vals] : n \in 0..2}

\* the record of a call: its number, name, arguments and results
Call(op, arg, ok, ret) ==
    [no |-> last.no + 1, op |-> op, arg |-> arg, ok |-> ok, ret |-> ret, out |-> <<>>]

\* the record of a call that reads only: it is not numbered
Query(op, ok, ret, out) ==
    [no |-> last.no, op |-> op, arg |-> <<>>, ok |-> ok, ret |-> ret, out |-> out]

\* a call that never returns
Hang == [no |-> last.no + 1, op |-> "hang", arg |-> <<>>, ok |-> FALSE, ret |-> 0,
         out |-> <<>>]

\* a call that has read device bytes outside the window: what it returns
\* and does next is not modelled
OutsideCall == [no |-> last.no + 1, op |-> "outside", arg |-> <<>>, ok |-> FALSE,
                ret |-> 0, out |-> <<>>]

\* the program makes at most MaxCalls calls that change its state, and none
\* after one that hangs or that has left the window
Live == last.op \notin {"hang", "outside"} /\ last.no < MaxCalls

(***************************************************************************)
(* History of the assignments, kept to state the round trip: phase is      *)
(* "old" in the run of a program, "fresh" after a restart and "begun" once *)
(* the restarted program has called begin().  track[v] is <<>>, or         *)
(* <<"reg">> once v is registered, or <<"set", e>> when the calls on v     *)
(* since were setValue calls, e being what the last one assigned.          *)
(***************************************************************************)
NoTrack == [v \in Vals |-> <<>>]

\* what setValue(x) assigns: the bytes of a scalar, the first maxTextLen
\* characters of a text
Assigned(v, x) ==
    IF IsText(v) THEN SubSeq(x, 1, Min(BufSize(v) - 1, Len(x))) ELSE x

\* what a value holds: the bytes of a scalar, the characters of a text
Held(v, buf) == IF IsText(v) THEN CStr(buf) ELSE buf

Init ==
    /\ rt = [phase |-> "old", track |-> NoTrack]
    /\ intBits \in Builds
    /\ eeprom = [a \in 0..(EepromLen - 1) |-> 255]
    /\ \E r \in Requests :
         /\ m_beginIndex = Window(r[1], r[2])[1]
         /\ m_endIndex = Window(r[1], r[2])[2]
    /\ m_nextPvAddress = 0
    /\ values = [v \in Vals |-> NewValue(v)]
    /\ m_pCurrentPv = <<>>
    /\ last = [no |-> 0, op |-> "new", arg |-> <<>>, ok |-> TRUE, ret |-> 0, out |-> <<>>]

Begin ==
    /\ Live
    /\ \E b \in {begin(eeprom)} :
           /\ eeprom' = b.dev
           /\ m_nextPvAddress' = b.next
           /\ last' = IF b.hang THEN Hang ELSE Call("begin", <<b.hdr>>, b.ok, b.ret)
           /\ rt' = IF rt.phase = "fresh" /\ b.ok /\ ~b.hang
                    THEN [rt EXCEPT !.phase = "begun"]
                    ELSE [phase |-> "old", track |-> NoTrack]
    /\ UNCHANGED <<m_beginIndex, m_endIndex, intBits, values, m_pCurrentPv>>

\* begin(values, removeUnusedValues), the initialization call of setup():
\* made on an engine that is not initialized yet
BeginList ==
    /\ Live
    /\ ~isInitialized_
    /\ \E list \in Lists, removeUnusedValues \in BOOLEAN :
         \E b \in {beginList(eeprom, values, list, removeUnusedValues)} :
             /\ eeprom' = b.dev
             /\ m_nextPvAddress' = b.next
             /\ values' = b.vals
             /\ last' = IF b.hang THEN Hang
                        ELSE Call("beginList", <<list, removeUnusedValues, b.rewrite,
                                                 b.stored, b.found>>, b.ret >= 0, b.ret)
             /\ rt' = [phase |-> "old",
                       track |-> [v \in Vals |->
                                    IF b.ret >= 0 /\ ~b.hang /\ (\E i \in 1..Len(list) : list[i] = v)
                                    THEN <<"reg">> ELSE <<>>]]
    /\ UNCHANGED <<m_beginIndex, m_endIndex, intBits, m_pCurrentPv>>

Add ==
    /\ Live
    /\ \E v \in Vals :
         \E a \in {add(eeprom, m_nextPvAddress, v, values[v])} :
             /\ eeprom' = a.dev
             /\ m_nextPvAddress' = a.next
             /\ values' = [values EXCEPT ![v] = a.val]
             /\ last' = IF a.hang THEN Hang ELSE Call("add", <<v, a.found, values[v].buf>>, a.ok, 0)
             /\ rt' = [phase |-> "old",
                       track |-> [w \in Vals |->
                                    IF w = v /\ a.ok /\ ~a.hang THEN <<"reg">> ELSE <<>>]]
    /\ UNCHANGED <<m_beginIndex, m_endIndex, intBits, m_pCurrentPv>>

Find ==
    /\ Live
    /\ \E v \in Vals :
         \E f \in {find(eeprom, m_nextPvAddress, v, values[v])} :
             /\ values' = [values EXCEPT ![v] = f.val]
             /\ last' = IF f.hang THEN Hang ELSE Call("find", <<v>>, f.ok, 0)
             /\ rt' = [phase |-> "old", track |-> NoTrack]
    /\ UNCHANGED <<eeprom, m_beginIndex, m_endIndex, intBits, m_nextPvAddress, m_pCurrentPv>>

SetValue ==
    /\ Live
    /\ \E v \in Vals : \E x \in Inputs(v), eq \in BOOLEAN :
         /\ eq \in EqualsOutcomes(v, values[v].buf, x)
         /\ rt' = IF rt.phase = "old" /\ rt.track[v] # <<>>
                  THEN [rt EXCEPT !.track[v] = <<"set", Assigned(v, x)>>]
                  ELSE [phase |-> "old", track |-> NoTrack]
         /\ LET buf == setMem_(v, values[v].buf, x)
                w == updateValue_(eeprom, values[v].address, buf)
            IN  IF eq
                THEN /\ UNCHANGED <<eeprom, values>>
                     /\ last' = Call("setValue", <<v, x, TRUE, {}>>, TRUE, 0)
                ELSE /\ eeprom' = w.dev
                     /\ values' = [values EXCEPT ![v].buf = buf]
                     /\ last' = Call("setValue", <<v, x, FALSE, w.writes>>, w.ok, 0)
    /\ UNCHANGED <<m_beginIndex, m_endIndex, intBits, m_nextPvAddress, m_pCurrentPv>>

Clear ==
    /\ Live
    /\ \E c \in {clear(eeprom, m_nextPvAddress)} :
           /\ eeprom' = c.dev
           /\ m_nextPvAddress' = c.next
           /\ last' = Call("clear", <<>>, c.ok, 0)
           /\ rt' = [phase |-> "old", track |-> NoTrack]
    /\ UNCHANGED <<m_beginIndex, m_endIndex, intBits, values, m_pCurrentPv>>

Count ==
    /\ Live
    /\ LET sc == ScanLoop(eeprom, firstPvAddress_, 0, {firstPvAddress_})
       IN  last' = IF ~isInitialized_ THEN Query("count", FALSE, 0 - 1, <<>>)
                   ELSE IF sc.hang THEN Hang
                   ELSE Query("count", TRUE, sc.count, <<>>)
    /\ UNCHANGED <<eeprom, m_beginIndex, m_endIndex, intBits, m_nextPvAddress, values, m_pCurrentPv,
                   rt>>

Load ==
    /\ Live
    /\ LET l == LoadLoop(eeprom, firstPvAddress_, <<>>)
       IN  last' = IF ~isInitialized_ THEN Query("load", FALSE, 0 - 1, <<>>)
                   ELSE IF l.outside THEN OutsideCall
                   ELSE Query("load", TRUE, Len(l.out), l.out)
    /\ UNCHANGED <<eeprom, m_beginIndex, m_endIndex, intBits, m_nextPvAddress, values, m_pCurrentPv,
                   rt>>

\* EmPersistentValueIterator::next
IterNext ==
    /\ Live
    /\ LET nextAddress == IF m_pCurrentPv = <<>> THEN firstPvAddress_
                          ELSE PvNextAddress_(m_pCurrentPv[1].address, m_pCurrentPv[1].size)
           c == createNext_(eeprom, nextAddress)
       IN  IF ~isInitialized_ \/ ~c.ok
           THEN /\ UNCHANGED m_pCurrentPv
                /\ last' = IF isInitialized_ /\ c.outside THEN OutsideCall
                           ELSE Call("next", <<>>, FALSE, 0)
           ELSE /\ m_pCurrentPv' = c.pv
                /\ last' = [Call("next", <<>>, TRUE, 0) EXCEPT !.out = c.pv]
    /\ UNCHANGED <<eeprom, m_beginIndex, m_endIndex, intBits, m_nextPvAddress, values, rt>>

\* EmPersistentValueIterator::reset
IterReset ==
    /\ Live
    /\ m_pCurrentPv' = <<>>
    /\ last' = Call("reset", <<>>, TRUE, 0)
    /\ UNCHANGED <<eeprom, m_beginIndex, m_endIndex, intBits, m_nextPvAddress, values, rt>>

\* a restart of the program: the device keeps its bytes, the engine and the
\* typed values are constructed again on the same window
Restart ==
    /\ Live
    /\ m_nextPvAddress' = 0
    /\ values' = [v \in Vals |-> NewValue(v)]
    /\ m_pCurrentPv' = <<>>
    /\ last' = Call("new", <<>>, TRUE, 0)
    /\ rt' = [rt EXCEPT !.phase = "fresh"]
    /\ UNCHANGED <<eeprom, m_beginIndex, m_endIndex, intBits>>

Next ==
    \/ Begin
    \/ BeginList
    \/ Add
    \/ Find
    \/ SetValue
    \/ Clear
    \/ Count
    \/ Load
    \/ IterNext
    \/ IterReset
    \/ Restart

Spec == Init /\ [][Next]_vars

(***************************************************************************)
(* A program late in its life: the engine, the values and the device are   *)
(* what a run of earlier calls has left, computed from the erased device   *)
(* with the operations above; the program then goes on as any other.       *)
(***************************************************************************)
\* one call of an earlier run, on st = [dev, next, vals]
Step(st, c) ==
    CASE c[1] = "begin" ->
           LET b == begin(st.dev)
           IN  [dev |-> b.dev, next |-> b.next, vals |-> st.vals]
      [] c[1] = "beginList" ->
           LET b == beginList(st.dev, st.vals, c[2], c[3])
           IN  [dev |-> b.dev, next |-> b.next, vals |-> b.vals]
      [] c[1] = "add" ->
           LET a == add(st.dev, st.next, c[2], st.vals[c[2]])
           IN  [dev |-> a.dev, next |-> a.next, vals |-> [st.vals EXCEPT ![c[2]] = a.val]]
      [] c[1] = "clear" ->
           LET k == clear(st.dev, st.next)
           IN  [dev |-> k.dev, next |-> k.next, vals |-> st.vals]
      [] c[1] = "setValue" ->
           LET val == st.vals[c[2]]
               buf == setMem_(c[2], val.buf, c[3])
               w == updateValue_(st.dev, val.address, buf)
           IN  IF equals(c[2], val.buf, c[3]) THEN st
               ELSE [dev |-> w.dev, next |-> st.next,
                     vals |-> [st.vals EXCEPT ![c[2]].buf = buf]]
      [] c[1] = "addOther" ->
           \* add() of a value the program declares no longer, with id c[2],
           \* holding c[3]
           LET nx == PvNextAddress_(st.next, Len(c[3]))
               w1 == updateBytes_(st.dev, st.next, c[2])
               w2 == updateBytes_(w1.dev, sizeAddress_(st.next), SizeBytes(Len(c[3])))
               w3 == updateBytes_(w2.dev, valueAddress_(st.next), c[3])
               ft == updateBytes_(w3.dev, nx, c_FooterId)
           IN  IF w1.ok /\ w2.ok /\ w3.ok /\ ft.ok
               THEN [dev |-> ft.dev, next |-> nx, vals |-> st.vals]
               ELSE st
      [] c[1] = "new" ->
           [dev |-> st.dev, next |-> 0, vals |-> [v \in Vals |-> NewValue(v)]]

RECURSIVE Run(_, _)
Run(st, calls) ==
    IF calls = <<>> THEN st
    ELSE CHOOSE r \in {Run(s, Tail(calls)) : s \in {Step(st, Head(calls))}} : TRUE

\* the earlier runs.  The first ends with a setValue on a value that clear()
\* has left marked stored at the address of a discarded record: it overwrites
\* the last two bytes of the record of the text.  The second is the run of a
\* program that declared a scalar of one byte with the id "b".
Earlier ==
    { << <<"beginList", <<"a1">>, FALSE>>, <<"new">>,
         <<"beginList", <<"a2", "a2">>, TRUE>>, <<"clear">>,
         <<"add", "a1">>, <<"add", "t">>, <<"setValue", "a2", <<255, 255>> >> >>,
      << <<"begin">>, <<"addOther", EmPersistentId(<<98>>), <<7>> >>, <<"new">> >> }

\* the calls the program still makes
LateCalls == 3

InitLate ==
    /\ rt = [phase |-> "old", track |-> NoTrack]
    /\ intBits \in Builds
    /\ m_beginIndex = Window(2, Undefined)[1]
    /\ m_endIndex = Window(2, Undefined)[2]
    /\ \E calls \in Earlier :
         \E st \in {Run([dev |-> [a \in 0..(EepromLen - 1) |-> 255], next |-> 0,
                          vals |-> [v \in Vals |-> NewValue(v)]], calls)} :
             /\ eeprom = st.dev
             /\ m_nextPvAddress = st.next
             /\ values = st.vals
    /\ m_pCurrentPv = <<>>
    /\ last = [no |-> MaxCalls - LateCalls, op |-> "new", arg |-> <<>>, ok |-> TRUE,
               ret |-> 0, out |-> <<>>]

SpecLate == InitLate /\ [][Next]_vars

(***************************************************************************)
(* The constructor alone, on every request for a window.                   *)
(***************************************************************************)
\* the addresses a program may ask for: none, or up to past the device
Asked == {Undefined} \cup 0..(EepromLen + 2)

Construct ==
    /\ \E b, e \in Asked :
         /\ m_beginIndex' = Window(b, e)[1]
         /\ m_endIndex' = Window(b, e)[2]
         /\ last' = [last EXCEPT !.arg = <<b, e>>]
    /\ m_nextPvAddress' = 0
    /\ values' = [v \in Vals |-> NewValue(v)]
    /\ m_pCurrentPv' = <<>>
    /\ UNCHANGED <<eeprom, intBits, rt>>

NextWindow == Construct

SpecWindow == Init /\ [][NextWindow]_vars

(***************************************************************************)
(* The device access primitives alone: one read or one update, at every    *)
(* address up to past the device and of every size up to that of the       *)
(* largest field of a record.                                              *)
(***************************************************************************)
\* the addresses and the bytes the primitives are called on
Addresses == 0..(EepromLen + 1)
Buffers == {<<7>>, <<255, 7>>, <<7, 255, 7>>}

ReadBytes ==
    /\ last.no = 0
    /\ \E index \in Addresses, bs \in Buffers :
         \E r \in {readBytes_(eeprom, index, Len(bs))} :
             last' = [Call("readBytes_", <<index, Len(bs)>>, r.ok, 0) EXCEPT !.out = r.bytes]
    /\ UNCHANGED <<eeprom, m_beginIndex, m_endIndex, intBits, m_nextPvAddress, values,
                   m_pCurrentPv, rt>>

UpdateBytes ==
    /\ last.no = 0
    /\ \E index \in Addresses, bs \in Buffers :
         \E w \in {updateBytes_(eeprom, index, bs)} :
             /\ eeprom' = w.dev
             /\ last' = Call("updateBytes_", <<index, Len(bs), bs>>, w.ok, 0)
    /\ UNCHANGED <<m_beginIndex, m_endIndex, intBits, m_nextPvAddress, values,
                   m_pCurrentPv, rt>>

NextAccess == ReadBytes \/ UpdateBytes

SpecAccess == Init /\ [][NextAccess]_vars

(***************************************************************************)
(* The vocabulary of the properties: the log a device holds, read as the   *)
(* record layout defines it, within the window [m_beginIndex, m_endIndex). *)
(***************************************************************************)
BytesAt(dev, a, n) == [i \in 1..n |-> dev[a + i - 1]]

\* the three bytes at address a are inside the window and are id
IdAt(dev, a, id) ==
    a >= m_beginIndex /\ a + c_MaxLen <= m_endIndex /\ BytesAt(dev, a, c_MaxLen) = id

\* Parse(dev, a): the complete records from address a, and where and how the
\* reading ends: at the Footer identifier, or at something that is no record
RECURSIVE Parse(_, _)
Parse(dev, a) ==
    IF a < m_beginIndex \/ a + c_MaxLen > m_endIndex
    THEN [recs |-> <<>>, end |-> a, footer |-> FALSE]
    ELSE IF BytesAt(dev, a, c_MaxLen) = c_FooterId
    THEN [recs |-> <<>>, end |-> a, footer |-> TRUE]
    ELSE IF a + c_MaxLen + SizeLen > m_endIndex
    THEN [recs |-> <<>>, end |-> a, footer |-> FALSE]
    ELSE LET size == SizeOfBytes(BytesAt(dev, a + c_MaxLen, SizeLen))
             rest == Parse(dev, a + c_MaxLen + SizeLen + size)
         IN  IF a + c_MaxLen + SizeLen + size > m_endIndex
             THEN [recs |-> <<>>, end |-> a, footer |-> FALSE]
             ELSE [recs |-> <<[address |-> a, id |-> BytesAt(dev, a, c_MaxLen),
                              size |-> size,
                              bytes |-> BytesAt(dev, a + c_MaxLen + SizeLen, size)]>>
                            \o rest.recs,
                   end |-> rest.end, footer |-> rest.footer]

\* the records of the device, in device order
Log(dev) == Parse(dev, m_beginIndex + c_MaxLen).recs

\* the device holds a log: the Header, then records up to a Footer
WellFormed(dev) ==
    IdAt(dev, m_beginIndex, c_HeaderId) /\ Parse(dev, m_beginIndex + c_MaxLen).footer

\* the address of the Footer of a well-formed device
FooterAddress(dev) == Parse(dev, m_beginIndex + c_MaxLen).end

\* the records of a log that have the identity of the value v
Matching(log, v) ==
    SelectSeq(log, LAMBDA r : r.id = IdOf(v) /\ r.size = BufSize(v))

\* the step just taken is a call of op
CallOf(op) == last'.no = last.no + 1 /\ last'.op = op

\* the device dev with bytes written at address a
Written(dev, a, bytes) ==
    [x \in DOMAIN dev |-> IF x >= a /\ x < a + Len(bytes) THEN bytes[x - a + 1] ELSE dev[x]]

\* what count() returns on the device dev
CountOf(dev) == ScanLoop(dev, firstPvAddress_, 0, {firstPvAddress_}).count

\* the bytes of the record of the value v holding buf
RecordBytes(v, buf) == IdOf(v) \o SizeBytes(BufSize(v)) \o buf

\* the values of a list that satisfy a test, in the order of the list
InList(list, v) == \E i \in 1..Len(list) : list[i] = v

(***************************************************************************)
(* C1: round trip.  When a value was registered (a successful add, or a    *)
(* begin(values, .) that returned a count and whose list holds it), the    *)
(* calls on it since were setValue calls, and the program restarts, calls  *)
(* begin() and then find() on the value declared again, find succeeds and  *)
(* the value holds what the last setValue assigned (for a text, its first  *)
(* maxTextLen characters).                                                 *)
(***************************************************************************)
C1_RoundTripStep ==
    \A v \in Vals :
      (CallOf("find") /\ last'.arg = <<v>> /\ rt.phase = "begun" /\ Len(rt.track[v]) = 2)
        => last'.ok /\ Held(v, values'[v].buf) = rt.track[v][2]

\* C1: every find() of the restarted program yields what setValue assigned last
C1_RoundTrip == [][C1_RoundTripStep]_vars

(***************************************************************************)
(* C2: compaction.  begin(values, true) on a well-formed log that holds a  *)
(* record matching no declared value leaves a well-formed log that holds   *)
(* exactly the declared values, in declaration order, each value that was  *)
(* stored with the bytes its record had; find() on a removed record's      *)
(* identity then fails.                                                    *)
(***************************************************************************)
C2_CompactionStep ==
    \A list \in Lists :
      LET old == Log(eeprom)
          new == Log(eeprom')
      IN  ( /\ CallOf("beginList") /\ last'.arg[1] = list /\ last'.arg[2]
            /\ WellFormed(eeprom)
            /\ \E i \in 1..Len(old) : \A j \in 1..Len(list) :
                 ~match_(old[i].id, IdOf(list[j]), old[i].size, BufSize(list[j])) )
          => /\ WellFormed(eeprom')
             /\ Len(new) = Len(list)
             /\ \A j \in 1..Len(list) :
                  /\ new[j].id = IdOf(list[j])
                  /\ new[j].size = BufSize(list[j])
                  /\ new[j].bytes = IF Matching(old, list[j]) # <<>>
                                    THEN Matching(old, list[j])[1].bytes
                                    ELSE values[list[j]].buf
             /\ \A v \in Vals :
                  (Matching(old, v) # <<>> /\ ~InList(list, v))
                    => ~find(eeprom', m_nextPvAddress', v, values'[v]).ok

\* C2: every begin(values, true) that has a record to remove leaves exactly the
\* declared values on the device
C2_Compaction == [][C2_CompactionStep]_vars

(***************************************************************************)
(* C3: append-only reconcile.  After begin(values, false) on a well-formed *)
(* log every record stored before is at its address with its id, size and  *)
(* bytes, and find() on the identity of each still succeeds.               *)
(* As claimed: every declared value that matched no stored record is       *)
(* appended, in declaration order, after the previously last record.       *)
(* As amended: those of them that are not marked stored are appended when  *)
(* their record and Footer end before the last byte of the window          *)
(* (address+5+size+3 < m_endIndex), contiguously from the address of the   *)
(* previous Footer; the others are left not stored, with address 0.  A    *)
(* value the list names twice is appended once.                            *)
(***************************************************************************)
\* the declared values that match no record of the log, in declaration order
Unmatched(list, log) == SelectSeq(list, LAMBDA v : Matching(log, v) = <<>>)

\* the list without the later entries of a value it names twice
FirstOnly(list) ==
    LET keep == {i \in 1..Len(list) : \A j \in 1..(i - 1) : list[j] # list[i]}
        RECURSIVE Pick(_)
        Pick(i) == IF i > Len(list) THEN <<>>
                   ELSE IF i \in keep THEN <<list[i]>> \o Pick(i + 1) ELSE Pick(i + 1)
    IN  Pick(1)

\* the addresses the values of us get from pos on: 0 for one that has no room
RECURSIVE Layout(_, _)
Layout(us, pos) ==
    IF us = <<>> THEN <<>>
    ELSE IF pos + c_MaxLen + SizeLen + BufSize(Head(us)) + c_MaxLen < m_endIndex
    THEN <<pos>> \o Layout(Tail(us), pos + c_MaxLen + SizeLen + BufSize(Head(us)))
    ELSE <<0>> \o Layout(Tail(us), pos)

C3_Frame(list) ==
    LET old == Log(eeprom)
    IN  /\ Len(Log(eeprom')) >= Len(old)
        /\ SubSeq(Log(eeprom'), 1, Len(old)) = old
        /\ \A v \in Vals :
             Matching(old, v) # <<>> => find(eeprom', m_nextPvAddress', v, values'[v]).ok

C3_IsStep(list) ==
    /\ CallOf("beginList") /\ last'.arg[1] = list /\ ~last'.arg[2]
    /\ WellFormed(eeprom)

C3_OriginalStep ==
    \A list \in Lists :
      LET old == Log(eeprom)
          new == Log(eeprom')
          us == Unmatched(list, old)
      IN  C3_IsStep(list)
          => /\ C3_Frame(list)
             /\ WellFormed(eeprom')
             /\ Len(new) = Len(old) + Len(us)
             /\ \A k \in 1..Len(us) :
                  /\ new[Len(old) + k].id = IdOf(us[k])
                  /\ new[Len(old) + k].size = BufSize(us[k])
                  /\ new[Len(old) + k].bytes = values[us[k]].buf

C3_AmendedStep ==
    \A list \in Lists :
      LET old == Log(eeprom)
          us == SelectSeq(FirstOnly(Unmatched(list, old)),
                          LAMBDA v : values[v].address = 0)
          at == Layout(us, FooterAddress(eeprom))
      IN  C3_IsStep(list)
          => /\ C3_Frame(list)
             /\ \A k \in 1..Len(us) :
                  /\ values'[us[k]].address = at[k]
                  /\ at[k] # 0 =>
                       BytesAt(eeprom', at[k], c_MaxLen + SizeLen + BufSize(us[k]))
                         = RecordBytes(us[k], values[us[k]].buf)

C4_ReturnsStoredCount ==
    (last.op = "beginList" /\ last.ret >= 0) => last.ret = last.arg[4]

(***************************************************************************)
(* C5: after a begin(values, removeUnusedValues) that returns a count,     *)
(* every declared value that matched a stored record holds the bytes the   *)
(* record had, and its address is not 0 and is the start of a record with  *)
(* its id and size.                                                        *)
(***************************************************************************)
C5_MatchedStep ==
    \A list \in Lists : \A v \in Vals :
      LET m == Matching(Log(eeprom), v)
          a == values'[v].address
      IN  ( /\ CallOf("beginList") /\ last'.arg[1] = list /\ last'.ret >= 0
            /\ InList(list, v)
            /\ IdAt(eeprom, m_beginIndex, c_HeaderId) /\ m # <<>> )
          => /\ values'[v].buf = m[1].bytes
             /\ a # 0
             /\ IdAt(eeprom', a, IdOf(v))
             /\ a + c_MaxLen + SizeLen <= m_endIndex
             /\ BytesAt(eeprom', a + c_MaxLen, SizeLen) = SizeBytes(BufSize(v))

\* C5: every begin(values, .) that returns a count leaves each matched declared
\* value loaded and stored
C5_MatchedLoaded == [][C5_MatchedStep]_vars

(***************************************************************************)
(* C6: begin() on a device whose window starts with the Header changes no  *)
(* device byte and, when the log is well formed, returns the number of its *)
(* records; on any other device it leaves exactly the Header at            *)
(* m_beginIndex and the Footer at m_beginIndex+3 written, returns 0 and    *)
(* sets m_nextPvAddress to m_beginIndex+3.  A begin() that directly        *)
(* follows a begin() returns the same count and writes nothing.            *)
(***************************************************************************)
C6_BeginStep ==
    CallOf("begin") =>
      /\ last'.ok
      /\ IF IdAt(eeprom, m_beginIndex, c_HeaderId)
         THEN /\ eeprom' = eeprom
              /\ WellFormed(eeprom) => last'.ret = Len(Log(eeprom))
         ELSE /\ eeprom' = Written(Written(eeprom, m_beginIndex, c_HeaderId),
                                   m_beginIndex + c_MaxLen, c_FooterId)
              /\ last'.ret = 0
              /\ m_nextPvAddress' = m_beginIndex + c_MaxLen
      /\ last.op = "begin" => eeprom' = eeprom /\ last'.ret = last.ret

\* C6: every begin() writes nothing on a formatted device and formats any other
C6_BeginWrites == [][C6_BeginStep]_vars

\* begin() has found the Header and counted two records
C6_Witness == last.op = "begin" /\ last.arg = <<TRUE>> /\ last.ret = 2

(***************************************************************************)
(* C7: begin() returns a count only when its scan ended at a Footer, and   *)
(* then m_nextPvAddress is the address of that Footer; it returns -1 when  *)
(* a read of the scan failed.                                              *)
(***************************************************************************)
\* C7: after a begin() that returned a count, m_nextPvAddress is at a Footer
C7_CountOnlyAtFooter ==
    (last.op = "begin" /\ last.ret >= 0) => IdAt(eeprom, m_nextPvAddress, c_FooterId)

(***************************************************************************)
(* C8: on an engine that is not initialized, add, find, load, count, clear *)
(* and the iterator's next fail, write no device byte and leave the engine *)
(* not initialized.                                                        *)
(***************************************************************************)
C8_UninitializedStep ==
    ( /\ ~isInitialized_
      /\ last'.no \in {last.no, last.no + 1}
      /\ last'.op \in {"add", "find", "load", "count", "clear", "next"} )
    => ~last'.ok /\ eeprom' = eeprom /\ m_nextPvAddress' = 0

\* C8: every call but begin on an engine that is not initialized fails and
\* changes nothing
C8_UninitializedFails == [][C8_UninitializedStep]_vars

(***************************************************************************)
(* C9: add(v) on an initialized engine whose device holds a well-formed    *)
(* log with a record of the id and size of v returns true, changes no      *)
(* device byte and not m_nextPvAddress, and leaves v with the address and  *)
(* the bytes of the first such record; an add(v) that directly follows an  *)
(* add(v) changes no device byte.                                          *)
(***************************************************************************)
C9_AddStep ==
    \A v \in Vals :
      LET m == Matching(Log(eeprom), v)
      IN  (CallOf("add") /\ last'.arg[1] = v)
          => /\ (isInitialized_ /\ WellFormed(eeprom) /\ m # <<>>)
                  => /\ last'.ok
                     /\ eeprom' = eeprom
                     /\ m_nextPvAddress' = m_nextPvAddress
                     /\ CountOf(eeprom') = CountOf(eeprom)
                     /\ values'[v] = [address |-> m[1].address, buf |-> m[1].bytes]
             /\ (last.op = "add" /\ last.arg[1] = v) => eeprom' = eeprom

\* C9: every add() of a value whose record is in the log loads it and writes
\* nothing
C9_AddPresent == [][C9_AddStep]_vars

\* add(a1) has found the record of a1 and has replaced the initial value of
\* a1 by the bytes of the record
C9_Witness ==
    /\ last.op = "add" /\ last.arg[1] = "a1" /\ last.arg[2] /\ last.ok
    /\ values["a1"].buf # last.arg[3]
    /\ values["a1"].address # 0

(***************************************************************************)
(* C10: when add(v) returns true for a value that matched no stored        *)
(* record, the record of v starts at the old m_nextPvAddress, the Footer   *)
(* follows it, m_nextPvAddress has advanced by 3+2+size, count() has       *)
(* increased by 1 and find(v) succeeds.                                    *)
(***************************************************************************)
C10_AppendStep ==
    \A v \in Vals :
      (CallOf("add") /\ last'.arg[1] = v /\ ~last'.arg[2] /\ last'.ok)
        => /\ m_nextPvAddress + c_MaxLen + SizeLen + BufSize(v) + c_MaxLen <= m_endIndex
           /\ BytesAt(eeprom', m_nextPvAddress, c_MaxLen + SizeLen + BufSize(v))
                = RecordBytes(v, values[v].buf)
           /\ IdAt(eeprom', m_nextPvAddress + c_MaxLen + SizeLen + BufSize(v), c_FooterId)
           /\ m_nextPvAddress' = m_nextPvAddress + c_MaxLen + SizeLen + BufSize(v)
           /\ CountOf(eeprom') = CountOf(eeprom) + 1
           /\ find(eeprom', m_nextPvAddress', v, values'[v]).ok

\* C10: every add() that appends leaves the record, the Footer, the next
\* address and the count as claimed
C10_Append == [][C10_AppendStep]_vars

(***************************************************************************)
(* C11: when add(v) returns false on an initialized engine, the address of *)
(* v is 0 afterwards (isStored() is false) and m_nextPvAddress is what it  *)
(* was.                                                                    *)
(***************************************************************************)
C11_RollbackStep ==
    \A v \in Vals :
      (CallOf("add") /\ last'.arg[1] = v /\ isInitialized_ /\ ~last'.ok)
        => /\ values'[v].address = 0
           /\ m_nextPvAddress' = m_nextPvAddress

\* C11: every add() that fails on an initialized engine leaves the value not
\* stored and m_nextPvAddress unchanged
C11_Rollback == [][C11_RollbackStep]_vars

\* add() has failed on an initialized engine after it had written bytes of
\* the record
C11_Witness ==
    /\ last.op = "add" /\ ~last.ok /\ isInitialized_
    /\ IdAt(eeprom, m_nextPvAddress, IdOf(last.arg[1]))

(***************************************************************************)
(* C12: a byte of the device is physically written only where the device   *)
(* held another byte; a setValue(x) that directly follows a setValue(x) on *)
(* the same stored value, scalar or text, truncated or not, writes no byte *)
(* and leaves the device as it was.                                        *)
(***************************************************************************)
C12_WearStep ==
    \A v \in Vals :
      (CallOf("setValue") /\ last'.arg[1] = v)
        => /\ \A a \in last'.arg[4] : eeprom'[a] # eeprom[a]
           /\ \A a \in DOMAIN eeprom : a \notin last'.arg[4] => eeprom'[a] = eeprom[a]
           /\ ( /\ last.op = "setValue" /\ last.arg[1] = v /\ last.arg[2] = last'.arg[2]
                /\ values[v].address # 0 )
                => last'.arg[4] = {} /\ eeprom' = eeprom

\* C12: every setValue() writes only bytes that change, and none when it
\* repeats the setValue() before it
C12_Wear == [][C12_WearStep]_vars

\* the second of two setValue("Got") on the stored text of maxTextLen 2: the
\* buffer does not compare equal, no byte is written
C12_Witness ==
    /\ last.op = "setValue" /\ last.arg = <<"t", <<71, 111, 116>>, FALSE, {}>> /\ last.ok
    /\ values["t"].address # 0
    /\ values["t"].buf = <<71, 111, 0>>

(***************************************************************************)
(* C13: text truncation.  After setValue(s) on the text of maxTextLen N    *)
(* the buffer holds the first min(N, len(s)) characters of s followed by a *)
(* terminator, whatever was assigned or loaded by find() before.           *)
(***************************************************************************)
C13_TruncationStep ==
    (CallOf("setValue") /\ IsText(last'.arg[1]))
      => LET v == last'.arg[1]
             x == last'.arg[2]
             n == Min(BufSize(v) - 1, Len(x))
         IN  /\ SubSeq(values'[v].buf, 1, n) = SubSeq(x, 1, n)
             /\ values'[v].buf[n + 1] = 0
             /\ Len(CStr(values'[v].buf)) <= BufSize(v) - 1

\* C13: every setValue on the text leaves the truncated string and its
\* terminator in the buffer
C13_Truncation == [][C13_TruncationStep]_vars

(***************************************************************************)
(* C14: identity.  On a well-formed log find(v) succeeds exactly when a    *)
(* record has the three id bytes of v and the size of v.  When the log     *)
(* holds a record with the id of v and another size and none with both,    *)
(* add(v) does not find it, and an add that returns true has appended the  *)
(* record of v at the address of the Footer and left the records stored    *)
(* before, the one with the other size among them, as they were (the next  *)
(* free address of the engine being the address of the Footer, which no    *)
(* compaction has moved).                                                  *)
(***************************************************************************)
C14_IdentityStep ==
    \A v \in Vals :
      LET old == Log(eeprom)
          new == Log(eeprom')
          sameId == SelectSeq(old, LAMBDA r : r.id = IdOf(v) /\ r.size # BufSize(v))
      IN  /\ (CallOf("find") /\ last'.arg[1] = v /\ isInitialized_ /\ WellFormed(eeprom))
                => (last'.ok <=> \E i \in 1..Len(old) :
                                   old[i].id = IdOf(v) /\ old[i].size = BufSize(v))
          /\ ( /\ CallOf("add") /\ last'.arg[1] = v /\ isInitialized_ /\ WellFormed(eeprom)
               /\ m_nextPvAddress = FooterAddress(eeprom)
               /\ sameId # <<>> /\ Matching(old, v) = <<>> )
                => /\ ~last'.arg[2]
                   /\ last'.ok =>
                        /\ values'[v].address = FooterAddress(eeprom)
                        /\ new = old \o <<[id |-> IdOf(v), size |-> BufSize(v),
                                           bytes |-> values[v].buf,
                                           address |-> FooterAddress(eeprom)]>>

\* C14: find and add tell records apart by the three id bytes and the size
C14_Identity == [][C14_IdentityStep]_vars

\* add(a2) has appended the record of a2 after the record of a1, which has the
\* same id and another size
C14_Witness ==
    /\ last.op = "add" /\ last.arg[1] = "a2" /\ ~last.arg[2] /\ last.ok
    /\ Len(Log(eeprom)) = 2
    /\ Log(eeprom)[1].id = Log(eeprom)[2].id
    /\ Log(eeprom)[1].size = BufSize("a1") /\ Log(eeprom)[2].size = BufSize("a2")

(***************************************************************************)
(* C15: no duplicate identities.  When no two records of the log have the  *)
(* same id and size, a begin(values, .) that returns a count, or an add on *)
(* the initialized engine, leaves a log in which no two records have.      *)
(***************************************************************************)
NoDuplicates(log) ==
    \A i, j \in 1..Len(log) :
        (log[i].id = log[j].id /\ log[i].size = log[j].size) => i = j

C15_NoDuplicatesStep ==
    ( /\ \/ CallOf("beginList") /\ last'.ok
         \/ CallOf("add") /\ isInitialized_
      /\ NoDuplicates(Log(eeprom)) )
      => NoDuplicates(Log(eeprom'))

\* C15: begin(values, .) and add leave no two records with one identity
C15_NoDuplicates == [][C15_NoDuplicatesStep]_vars

(***************************************************************************)
(* C16: well-formedness.  After a begin() or begin(values, .) that returns *)
(* a count, and after an add, a clear or a setValue on an initialized      *)
(* engine whose device held a well-formed log with the Footer at           *)
(* m_nextPvAddress, the device holds a well-formed log and m_nextPvAddress *)
(* is the address of its Footer; calls that return failure included.       *)
(***************************************************************************)
C16_WellFormedStep ==
    ( \/ (CallOf("begin") \/ CallOf("beginList")) /\ last'.ok
      \/ /\ CallOf("add") \/ CallOf("clear") \/ CallOf("setValue")
         /\ isInitialized_ /\ WellFormed(eeprom)
         /\ m_nextPvAddress = FooterAddress(eeprom) )
      => /\ WellFormed(eeprom')
         /\ m_nextPvAddress' = FooterAddress(eeprom')

\* C16: every call of begin, add, clear and setValue keeps the log well formed
\* and m_nextPvAddress at its Footer
C16_WellFormed == [][C16_WellFormedStep]_vars

(***************************************************************************)
(* C17: clear.  clear() on an initialized engine returns true, leaves the  *)
(* device as it was but for the Header at m_beginIndex and the Footer at   *)
(* m_beginIndex+3, and sets m_nextPvAddress to m_beginIndex+3; count() is  *)
(* then 0, find() fails for every value, and an add that succeeds then     *)
(* puts its record at m_beginIndex+3.                                      *)
(***************************************************************************)
C17_ClearStep ==
    (CallOf("clear") /\ isInitialized_)
      => /\ last'.ok
         /\ eeprom' = Written(Written(eeprom, m_beginIndex, c_HeaderId),
                              m_beginIndex + c_MaxLen, c_FooterId)
         /\ m_nextPvAddress' = m_beginIndex + c_MaxLen
         /\ CountOf(eeprom') = 0
         /\ \A v \in Vals :
              /\ ~find(eeprom', m_nextPvAddress', v, values'[v]).ok
              /\ \E a \in {add(eeprom', m_nextPvAddress', v, values'[v])} :
                   a.ok => /\ a.val.address = m_beginIndex + c_MaxLen
                           /\ BytesAt(a.dev, m_beginIndex + c_MaxLen,
                                      c_MaxLen + SizeLen + BufSize(v))
                                = RecordBytes(v, values'[v].buf)

\* C17: every clear() on an initialized engine empties the log
C17_Clear == [][C17_ClearStep]_vars

\* clear() has emptied a log that held the records of two values
C17_Witness ==
    /\ last.op = "clear" /\ last.ok
    /\ Cardinality({v \in Vals : values[v].address # 0}) = 2
    /\ Log(eeprom) = <<>> /\ WellFormed(eeprom)
    /\ m_nextPvAddress = m_beginIndex + c_MaxLen

(***************************************************************************)
(* C18: window construction.  For every request the constructed engine has *)
(* 0 <= m_beginIndex < m_endIndex and a window of at least c_MinSize       *)
(* bytes, and a request for fewer than c_MinSize bytes gives the whole     *)
(* device.                                                                 *)
(***************************************************************************)
\* the region a request names, absent arguments standing for the ends of the
\* device
Requested(b, e) ==
    <<IF b = Undefined THEN 0 ELSE b, IF e = Undefined THEN EepromLen ELSE e>>

\* C18: the window of every constructed engine is in order and large enough,
\* and is the whole device when the request was too small
C18_Window ==
    (last.op = "new" /\ Len(last.arg) = 2)
      => LET r == Requested(last.arg[1], last.arg[2])
         IN  /\ 0 <= m_beginIndex /\ m_beginIndex < m_endIndex
             /\ m_endIndex - m_beginIndex >= c_MinSize
             /\ r[2] - r[1] < c_MinSize
                  => m_beginIndex = 0 /\ m_endIndex = EepromLen

(***************************************************************************)
(* C20: bounds check.  A read or an update of len bytes at addr succeeds   *)
(* exactly when m_beginIndex <= addr and addr + len <= m_endIndex; a read  *)
(* that succeeds returns the bytes of the device and an update that        *)
(* succeeds leaves them on it, and one that fails leaves the device as it  *)
(* was.                                                                    *)
(***************************************************************************)
C20_BoundsStep ==
    (CallOf("readBytes_") \/ CallOf("updateBytes_"))
      => LET addr == last'.arg[1]
             len == last'.arg[2]
         IN  /\ last'.ok <=> (m_beginIndex <= addr /\ addr + len <= m_endIndex)
             /\ ~last'.ok => eeprom' = eeprom
             /\ (last'.ok /\ CallOf("readBytes_")) => last'.out = BytesAt(eeprom, addr, len)
             /\ (last'.ok /\ CallOf("updateBytes_"))
                  => eeprom' = Written(eeprom, addr, last'.arg[3])

\* C20: the primitives accept exactly the accesses that end at or before
\* m_endIndex
C20_Bounds == [][C20_BoundsStep]_vars

(***************************************************************************)
(* C19: window confinement.  No call reads or writes a device byte outside *)
(* [m_beginIndex, m_endIndex); the bytes outside the window are those of   *)
(* the erased device; the record of every value that is marked stored ends *)
(* at or before m_endIndex.                                                *)
(***************************************************************************)
\* C19: every access is inside the window, and every record ends inside it
C19_Confined ==
    /\ last.op # "outside"
    /\ \A a \in DOMAIN eeprom : (a < m_beginIndex \/ a >= m_endIndex) => eeprom[a] = 255
    /\ \A v \in Vals :
         values[v].address # 0 => PvNextAddress_(values[v].address, BufSize(v)) <= m_endIndex

(***************************************************************************)
(* C21: a find() that fails changes nothing.  When find(v) returns false,  *)
(* the address and the bytes of v, and so isStored(), are what they were   *)
(* before the call.                                                        *)
(***************************************************************************)
C21_FindFailureStep ==
    (CallOf("find") /\ ~last'.ok) => values' = values

\* C21: every find() that returns false leaves its argument as it was
C21_FindFailure == [][C21_FindFailureStep]_vars

(***************************************************************************)
(* C22: iteration order.  On an initialized engine whose device holds a    *)
(* well-formed log, a next() of an iterator that holds nothing yields the  *)
(* first record, a next() of one that holds the k-th record yields the     *)
(* (k+1)-th with its id, size, bytes and address, and returns false,       *)
(* keeping what it holds, when the k-th is the last before the Footer;     *)
(* reset() leaves the iterator holding nothing; the iterator never holds   *)
(* more than one record.                                                   *)
(***************************************************************************)
\* the place in the log of the record an iterator holds: 0 when it holds
\* none, -1 when what it holds is no record of the log
Place(log, cur) ==
    IF cur = <<>> THEN 0
    ELSE LET is == {i \in 1..Len(log) : /\ log[i].address = cur[1].address
                                        /\ log[i].id = cur[1].id
                                        /\ log[i].size = cur[1].size}
         IN  IF is = {} THEN 0 - 1 ELSE CHOOSE i \in is : TRUE

C22_IterationStep ==
    LET log == Log(eeprom)
        k == Place(log, m_pCurrentPv)
    IN  /\ (CallOf("next") /\ isInitialized_ /\ WellFormed(eeprom) /\ k >= 0)
             => IF k < Len(log)
                THEN /\ last'.ok
                     /\ m_pCurrentPv' = <<[id |-> log[k + 1].id,
                                           address |-> log[k + 1].address,
                                           size |-> log[k + 1].size,
                                           buf |-> log[k + 1].bytes]>>
                     /\ last'.out = m_pCurrentPv'
                ELSE ~last'.ok /\ m_pCurrentPv' = m_pCurrentPv
        /\ CallOf("reset") => m_pCurrentPv' = <<>>
        /\ Len(m_pCurrentPv') <= 1

\* C22: next() walks the records in device order and reset() restarts the walk
C22_Iteration == [][C22_IterationStep]_vars

\* the second next() of a walk has yielded the second record of a log of two
C22_Witness ==
    /\ last.op = "next" /\ last.ok
    /\ Len(Log(eeprom)) = 2 /\ WellFormed(eeprom)
    /\ m_pCurrentPv # <<>>
    /\ m_pCurrentPv[1].address = Log(eeprom)[2].address
    /\ m_pCurrentPv[1].buf = Log(eeprom)[2].bytes

(***************************************************************************)
(* C23: the four traversals agree.  On an initialized engine, whatever the *)
(* calls made so far have left on the device, the count begin() returns,   *)
(* the count count() returns, the number of records load() appends and the *)
(* number of next() calls that succeed after a reset() are equal.          *)
(***************************************************************************)
\* the number of next() calls that succeed from an iterator holding cur
RECURSIVE Walk(_, _, _)
Walk(dev, cur, n) ==
    LET nextAddress == IF cur = <<>> THEN firstPvAddress_
                       ELSE PvNextAddress_(cur[1].address, cur[1].size)
        c == createNext_(dev, nextAddress)
    IN  IF ~c.ok THEN [n |-> n, outside |-> c.outside] ELSE Walk(dev, c.pv, n + 1)

\* C23: begin(), count(), load() and the iterator see the same number of
\* records
C23_TraversalsAgree ==
    LET b == begin(eeprom)
        sc == ScanLoop(eeprom, firstPvAddress_, 0, {firstPvAddress_})
        l == LoadLoop(eeprom, firstPvAddress_, <<>>)
        w == Walk(eeprom, <<>>, 0)
    IN  (isInitialized_ /\ ~b.hang /\ ~sc.hang /\ ~l.outside /\ ~w.outside)
          => /\ b.ret = sc.count
             /\ sc.count = Len(l.out)
             /\ Len(l.out) = w.n

(***************************************************************************)
(* C24: frame of setValue.  setValue on a value marked stored changes      *)
(* device bytes only among the value bytes [address+5, address+5+size) of  *)
(* the value and leaves m_nextPvAddress, the Header, the Footer, count()   *)
(* and the id, size and address of every record as they were; setValue on  *)
(* a value with address 0 changes no device byte and returns false when    *)
(* the bytes assigned differ from the buffer.                              *)
(***************************************************************************)
\* the id, the size and the address of every record of a log
Identities(log) == [i \in 1..Len(log) |-> <<log[i].id, log[i].size, log[i].address>>]

C24_FrameStep ==
    \A v \in Vals :
      (CallOf("setValue") /\ last'.arg[1] = v)
        => /\ m_nextPvAddress' = m_nextPvAddress
           /\ values[v].address # 0
                => /\ \A a \in DOMAIN eeprom :
                        eeprom'[a] # eeprom[a]
                          => /\ a >= valueAddress_(values[v].address)
                             /\ a < valueAddress_(values[v].address) + BufSize(v)
                   /\ IdAt(eeprom, m_beginIndex, c_HeaderId)
                        => IdAt(eeprom', m_beginIndex, c_HeaderId)
                   /\ WellFormed(eeprom)
                        => /\ WellFormed(eeprom')
                           /\ FooterAddress(eeprom') = FooterAddress(eeprom)
                           /\ CountOf(eeprom') = CountOf(eeprom)
                           /\ Identities(Log(eeprom')) = Identities(Log(eeprom))
           /\ values[v].address = 0
                => /\ eeprom' = eeprom
                   /\ ~last'.arg[3] => ~last'.ok

\* C24: every setValue writes value bytes of its own record only
C24_Frame == [][C24_FrameStep]_vars

(***************************************************************************)
(* C25: address validity.  In every state reached by calls of the engine,  *)
(* every value marked stored (address not 0) has an address of at least    *)
(* m_beginIndex + 3 at which the log of the device holds a record, before  *)
(* the Footer, with the id and the size of the value.                      *)
(***************************************************************************)
\* the log of the device holds a record of the value v at address a
RecordAt(dev, v, a) ==
    \E i \in 1..Len(Log(dev)) :
        /\ Log(dev)[i].address = a
        /\ Log(dev)[i].id = IdOf(v)
        /\ Log(dev)[i].size = BufSize(v)

\* C25: a value marked stored designates a record of its own in the log
C25_AddressValid ==
    \A v \in Vals :
        values[v].address # 0
          => /\ values[v].address >= m_beginIndex + c_MaxLen
             /\ RecordAt(eeprom, v, values[v].address)

(***************************************************************************)
(* The scans on a device that holds anything.  The engine never erases the *)
(* device: begin() takes whatever follows a Header for the log, so the     *)
(* bytes inside the window are an input of the scans.  The device starts   *)
(* with a Header, up to MaxRecords records and a tail, the rest erased.    *)
(***************************************************************************)
MaxRecords == 2

\* the bytes of the records a device may hold: a record of one byte, a
\* record whose size field holds 65531 and one whose size field holds 65535
StoredRecords ==
    { EmPersistentId(<<97>>) \o SizeBytes(1) \o <<16>>,
      EmPersistentId(<<98>>) \o SizeBytes(65531),
      EmPersistentId(<<98>>) \o SizeBytes(65535) }

\* what follows the last record: the Footer, nothing, or the id and the
\* size a rejected append of the text value has left
Tails == { c_FooterId, <<>>, IdOf("t") \o SizeBytes(BufSize("t")) }

RECURSIVE Concat(_)
Concat(seqs) == IF seqs = <<>> THEN <<>> ELSE Head(seqs) \o Concat(Tail(seqs))

\* the contents of a window: Header, records, tail
Contents ==
    { c_HeaderId \o Concat(rs) \o tl :
        rs \in UNION {[1..n -> StoredRecords] : n \in 0..MaxRecords}, tl \in Tails }

\* an erased device with bytes from address b on
Image(b, bytes) ==
    [a \in 0..(EepromLen - 1) |->
        IF a >= b /\ a < b + Len(bytes) THEN bytes[a - b + 1] ELSE 255]

InitScan ==
    /\ rt = [phase |-> "old", track |-> NoTrack]
    /\ intBits \in Builds
    /\ \E r \in Requests :
         /\ m_beginIndex = Window(r[1], r[2])[1]
         /\ m_endIndex = Window(r[1], r[2])[2]
    /\ \E bytes \in Contents :
         /\ m_beginIndex + Len(bytes) <= m_endIndex
         /\ eeprom = Image(m_beginIndex, bytes)
    /\ m_nextPvAddress = 0
    /\ values = [v \in Vals |-> NewValue(v)]
    /\ m_pCurrentPv = <<>>
    /\ last = [no |-> MaxCalls - LateCalls, op |-> "new", arg |-> <<>>, ok |-> TRUE,
               ret |-> 0, out |-> <<>>]

NextScan ==
    \/ Begin
    \/ Count
    \/ Find
    \/ Load
    \/ IterNext
    \/ IterReset

SpecScan == InitScan /\ [][NextScan]_vars

(***************************************************************************)
(* C26: scan termination.  Whatever the window of the device holds, the    *)
(* scans of begin(), count(), find(), load() and next() come to an end: no *)
(* call is one that never returns.                                         *)
(***************************************************************************)
\* C26: no scan runs for ever
C26_ScansTerminate == last.op # "hang"

(***************************************************************************)
(* C27: setValue success implies persistence.  Whenever setValue returns   *)
(* true, the value is marked stored (address not 0) and the device bytes   *)
(* of its value field are the bytes of its buffer.                         *)
(***************************************************************************)
C27_PersistedStep ==
    \A v \in Vals :
      (CallOf("setValue") /\ last'.arg[1] = v /\ last'.ok)
        => /\ values'[v].address # 0
           /\ \A i \in 1..BufSize(v) :
                 /\ valueAddress_(values'[v].address) + i - 1 \in DOMAIN eeprom'
                 /\ eeprom'[valueAddress_(values'[v].address) + i - 1] = values'[v].buf[i]

\* C27: a setValue that returns true has left the value on the device
C27_Persisted == [][C27_PersistedStep]_vars

(***************************************************************************)
(* Power loss during an append.  appendValue_ writes the id, the size, the *)
(* value and the new Footer with updateBytes_, byte after byte at rising   *)
(* addresses, and EEPROM.write is called where the device holds another    *)
(* byte.  When the power is lost the device keeps the bytes written so     *)
(* far, and the program starts again with a new engine and new values.     *)
(***************************************************************************)
\* the addresses an operation taking dev to dev2 has written
Changed(dev, dev2) == {a \in DOMAIN dev : dev2[a] # dev[a]}

\* the device when the operation has made its first k byte writes
AfterWrites(dev, dev2, k) ==
    [a \in DOMAIN dev |->
        IF Cardinality({b \in Changed(dev, dev2) : b <= a}) <= k THEN dev2[a] ELSE dev[a]]

\* add(value) that appends, stopped between two of its byte writes
AddInterrupted ==
    /\ Live
    /\ isInitialized_
    /\ \E v \in Vals :
         \E a \in {add(eeprom, m_nextPvAddress, v, values[v])} :
             /\ ~a.hang
             /\ ~a.found
             /\ \E k \in 1..(Cardinality(Changed(eeprom, a.dev)) - 1) :
                  /\ eeprom' = AfterWrites(eeprom, a.dev, k)
                  /\ last' = Call("powerLoss", <<v, k>>, FALSE, 0)
    /\ m_nextPvAddress' = 0
    /\ values' = [v \in Vals |-> NewValue(v)]
    /\ m_pCurrentPv' = <<>>
    /\ rt' = [phase |-> "old", track |-> NoTrack]
    /\ UNCHANGED <<m_beginIndex, m_endIndex, intBits>>

NextPower ==
    \/ Begin
    \/ Add
    \/ SetValue
    \/ AddInterrupted

SpecPower == Init /\ [][NextPower]_vars

(***************************************************************************)
(* C28: power-loss consistency of append.  When an add() that appends to a *)
(* well-formed log is stopped between two of its byte writes, the device   *)
(* still holds a well-formed log (a Footer is reached inside the window)   *)
(* and every record of the log before the add is still in the log, at its  *)
(* address and with its bytes.                                             *)
(***************************************************************************)
\* the records of the log before are the first records of the log after
Kept(before, after) ==
    \A i \in 1..Len(before) : i <= Len(after) /\ after[i] = before[i]

C28_PowerLossStep ==
    (/\ CallOf("powerLoss")
     /\ WellFormed(eeprom)
     /\ m_nextPvAddress = FooterAddress(eeprom))
      => /\ WellFormed(eeprom')
         /\ Kept(Log(eeprom), Log(eeprom'))

\* C28: an append stopped half way leaves a well-formed log
C28_PowerLoss == [][C28_PowerLossStep]_vars

(***************************************************************************)
(* C29: the reconciling begin reports append failures.  Whenever           *)
(* begin(declared, removeUnusedValues) returns a result that is not        *)
(* negative, every declared value is marked stored and the log of the      *)
(* device holds its record at its address.                                 *)
(***************************************************************************)
C29_AllStoredStep ==
    (CallOf("beginList") /\ last'.ret >= 0)
      => \A v \in Vals :
           InList(last'.arg[1], v)
             => /\ values'[v].address # 0
                /\ RecordAt(eeprom', v, values'[v].address)

\* C29: a begin(declared, .) that succeeds has stored every declared value
C29_AllStored == [][C29_AllStoredStep]_vars
====
